---- MODULE Spec2Model ----
(***************************************************************************)
(* The Kind reconciler of onos-operator                                    *)
(* (pkg/controller/topo/kind/reconciler.go): a Kind resource of the        *)
(* Kubernetes store is mirrored into the onos-topo registry, guarded by    *)
(* the "topo" finalizer.                                                   *)
(*                                                                         *)
(* One Reconcile invocation is a sequence of blocking calls (store Get,    *)
(* store Update, service connect, topo Get/Create/Delete).  Every such     *)
(* call is one atomic step of the model; between two steps the users, the  *)
(* store's garbage collector, the other finalizer owners and (in SpecExt)  *)
(* unrelated registry clients may act.                                     *)
(***************************************************************************)
EXTENDS Naturals, FiniteSets, Sequences, TLC

\* ------------------------------------------------------------- constants
topoService == "onos-topo"
topoFinalizer == "topo"
\* the finalizer of some other controller that may sit on the same Kind
otherFinalizer == "other"
\* controller.Options{Reconciler: r} leaves MaxConcurrentReconciles at its
\* default: one Reconcile runs at a time
MaxConcurrentReconciles == 1

\* ---------------------------------------------------------------- bounds
\* how many Kinds the store holds at the same time
MaxKinds == 2

\* ------------------------------------------------------------ identities
Namespaces == {"n1", "n2"}
Names == {"a", "b"}
\* identities (namespace, name): the same name in two namespaces, and two
\* names in one namespace
Ids == {<<"n1", "a">>, <<"n2", "a">>, <<"n1", "b">>}
\* the entries that unrelated clients of the registry write (SpecExt)
ExtIds == {<<"n1", "a">>}
Workers == 1..MaxConcurrentReconciles
Finalizers == {topoFinalizer, otherFinalizer}

Namespace(id) == id[1]
Name(id) == id[2]

\* the attribute bags a user may give to a Kind
Attrs == {"v1", "v2"}
\* the Kinds whose attributes users edit (SpecEdit)
EditIds == {<<"n1", "a">>}
\* the Kinds users declare in the specification with fairness (SpecLive)
LiveIds == {<<"n1", "a">>, <<"n1", "b">>}

VARIABLES
    store,      \* store[id]: the Kind object held by the Kubernetes store
    topo,       \* the registry entries: a set of <<service, ID>> keys
    attributes, \* the Attributes of the entries: a set of <<key, attrs>>
    pc,         \* pc[w]: the call worker w is about to make ("idle": none)
    req,        \* req[w]: the identity of w's current / last request
    kind,       \* kind[w]: the object fetched by w's current call
    stale,      \* stale[w]: the store holds a newer version than kind[w]
    call,       \* call[w]: what w's current / last invocation has done
    res,        \* res[w]: outcome of w's last finished invocation
    creates,    \* creates[id]: Create requests the registry accepted for the
                \* present incarnation of id (answered without error)
    cancelled,  \* cancelled[w]: the caller of w's invocation has given up
    healthy,    \* the store and the registry have stopped failing
    queued,     \* requests are handed out by the work queue alone (SpecLive);
                \* otherwise a request may arrive at any time
    pending     \* the identities in the work queue, kept where queued

vars == <<store, topo, attributes, pc, req, kind, stale, call, res, creates,
          cancelled, healthy, queued, pending>>

\* ------------------------------------------------------------ the store
NoKind == [present |-> FALSE, deleting |-> FALSE, finalizers |-> {},
           attrs |-> "none"]

\* ------------------------------------------------- the finalizer helpers
HasFinalizer(k, f) == f \in k.finalizers
AddFinalizer(k, f) == [k EXCEPT !.finalizers = @ \cup {f}]
RemoveFinalizer(k, f) == [k EXCEPT !.finalizers = @ \ {f}]

\* ------------------------------------------------- the registry requests
\* grpc.ConnectService(r.client, kind.Namespace, topoService): the service
\* named onos-topo of the Kind's namespace
ConnectService(ns, name) == <<ns, name>>
\* the ID taken from the wrong field of the Kind
TopoIDFromNamespace(id) == Namespace(id)

\* ID: topo.ID(kind.Name)
TopoID(id) == Name(id)
\* the entry a request of a reconcile of id addresses
EntryKey(id) == <<ConnectService(Namespace(id), topoService), TopoID(id)>>

\* status classes of a registry answer
Failures == {"Unknown", "NonStatus"}

\* kindExists that never reports the entry as present
kindExistsNeverFound(resp) ==
    IF resp \in {"OK", "NotFound"} THEN [exists |-> FALSE, err |-> FALSE]
    ELSE [exists |-> FALSE, err |-> TRUE]

\* kindExists: the answer of client.Get turned into (exists, err)
kindExists(resp) ==
    IF resp = "OK" THEN [exists |-> TRUE, err |-> FALSE]
    ELSE IF resp = "NonStatus" THEN [exists |-> FALSE, err |-> TRUE]
    ELSE IF resp # "NotFound" THEN [exists |-> FALSE, err |-> TRUE]
    ELSE [exists |-> FALSE, err |-> FALSE]

\* createKind without the IsAlreadyExists exemption
createKindStrict(resp) == resp # "OK"

\* createKind: the answer of client.Create turned into err
createKind(resp) ==
    IF resp = "OK" THEN FALSE
    ELSE IF resp = "NonStatus" THEN TRUE
    ELSE IF resp # "AlreadyExists" THEN TRUE
    ELSE FALSE

\* deleteKind that drops every error
deleteKindSwallowingErrors(resp) == FALSE

\* deleteKind without the IsNotFound exemption
deleteKindStrict(resp) == resp # "OK"

\* deleteKind: the answer of client.Delete turned into err
deleteKind(resp) ==
    IF resp = "OK" THEN FALSE
    ELSE IF resp = "NonStatus" THEN TRUE
    ELSE IF resp # "NotFound" THEN TRUE
    ELSE FALSE

\* ------------------------------------------------------ control flow
\* Reconcile without the DeletionTimestamp test
BranchIgnoringDeletion(k) == "reconcileCreate"

\* Reconcile: kind.DeletionTimestamp == nil
Branch(k) == IF ~k.deleting THEN "reconcileCreate" ELSE "reconcileDelete"

\* reconcileCreate that goes to the registry without the finalizer
reconcileCreateEntrySkippingFinalizer(k) == "connectCreate"

\* reconcileCreate, first statement
reconcileCreateEntry(k) ==
    IF ~HasFinalizer(k, topoFinalizer) THEN "addFinalizer" ELSE "connectCreate"

\* reconcileDelete without the HasFinalizer test
reconcileDeleteEntryAlways(k) == "connectDelete"

\* reconcileDelete removing the finalizer before the registry is cleaned
reconcileDeleteEntryUnfinalizeFirst(k) ==
    IF ~HasFinalizer(k, topoFinalizer) THEN "Done" ELSE "removeFinalizer"

\* reconcileDelete, first statement
reconcileDeleteEntry(k) ==
    IF ~HasFinalizer(k, topoFinalizer) THEN "Done" ELSE "connectDelete"

\* reconcileCreate going on after a failed Update
AfterAddFinalizerIgnoringError(err) == "connectCreate"

\* reconcileCreate calling createKind again after an error
AfterCreateKindRetrying(err) == IF err THEN "createKind" ELSE "Done"

\* reconcileCreate calling createKind although the entry exists
AfterKindExistsAlwaysCreate(r) == IF r.err THEN "Requeue" ELSE "createKind"

\* what follows each call of reconcileCreate
AfterAddFinalizer(err) == IF err THEN "Requeue" ELSE "connectCreate"
AfterConnectCreate(err) == IF err THEN "Requeue" ELSE "kindExists"
AfterKindExists(r) ==
    IF r.err THEN "Requeue" ELSE IF r.exists THEN "Done" ELSE "createKind"
AfterCreateKind(err) == IF err THEN "Requeue" ELSE "Done"

\* reconcileDelete removing the finalizer whatever deleteKind returned
AfterDeleteKindIgnoringError(err) == "removeFinalizer"

\* reconcileDelete returning after deleteKind, the finalizer left in place
AfterDeleteKindKeepingFinalizer(err) == IF err THEN "Requeue" ELSE "Done"

\* reconcileDelete that connects and never calls deleteKind
AfterConnectDeleteSkippingDelete(err) ==
    IF err THEN "Requeue" ELSE "removeFinalizer"

\* reconcileDelete returning nil although the Update failed
AfterRemoveFinalizerIgnoringError(err) == "Done"

\* what follows each call of reconcileDelete
AfterConnectDelete(err) == IF err THEN "Requeue" ELSE "deleteKind"
AfterDeleteKind(err) == IF err THEN "Requeue" ELSE "removeFinalizer"
AfterRemoveFinalizer(err) == IF err THEN "Requeue" ELSE "Done"

Outcomes == {"Done", "Requeue"}

\* the state a Reconcile call derives from its snapshot
Observed(k) ==
    IF ~k.deleting
    THEN IF HasFinalizer(k, topoFinalizer) THEN "ACTIVE_FINALIZED"
         ELSE "ACTIVE_NO_FINALIZER"
    ELSE IF HasFinalizer(k, topoFinalizer) THEN "DELETING_FINALIZED"
         ELSE "DELETING_NO_FINALIZER"

\* obs: the state observed by the fetch; upd, get, create, del: the calls
\* made so far; err: the call that failed; got: the answer of the registry's
\* Get; last: the answer of the registry's Create or Delete; redo: the step
\* the previous invocation for the same Kind left undone; attrs: the
\* attributes of the fetched Kind
NoCall == [obs |-> "none", upd |-> 0, get |-> 0, create |-> 0, del |-> 0,
           err |-> "none", got |-> "none", last |-> "none", redo |-> "none",
           attrs |-> "none"]

Start ==
    /\ store = [id \in Ids |-> NoKind]
    /\ topo = {}
    /\ attributes = {}
    /\ pc = [w \in Workers |-> "idle"]
    /\ req = [w \in Workers |-> CHOOSE id \in Ids : TRUE]
    /\ kind = [w \in Workers |-> NoKind]
    /\ call = [w \in Workers |-> NoCall]
    /\ res = [w \in Workers |-> "none"]
    /\ stale = [w \in Workers |-> FALSE]
    /\ creates = [id \in Ids |-> 0]
    /\ cancelled = [w \in Workers |-> FALSE]
    /\ healthy = FALSE
    /\ pending = {}

Init == Start /\ queued = FALSE

\* the start of SpecLive
InitLive == Start /\ queued = TRUE

\* the invocation of w goes on with nxt and the object k, or returns nxt
Goto(w, nxt, k) ==
    IF nxt \in Outcomes
    THEN /\ pc' = [pc EXCEPT ![w] = "idle"]
         /\ res' = [res EXCEPT ![w] = nxt]
         /\ kind' = [kind EXCEPT ![w] = NoKind]
         /\ stale' = [stale EXCEPT ![w] = FALSE]
    ELSE /\ pc' = [pc EXCEPT ![w] = nxt]
         /\ kind' = [kind EXCEPT ![w] = k]
         /\ UNCHANGED <<res, stale>>

\* a write of the stored Kind id outdates the copies fetched before it
Outdate(id) ==
    stale' = [w \in Workers |-> stale[w] \/ (pc[w] # "idle" /\ req[w] = id)]

\* the first failure of an invocation is kept
Err(c, e, failed) == IF failed /\ c.err = "none" THEN e ELSE c.err

\* ------------------------------------------------------ the work queue
\* the watch on Kind enqueues a request for every change of a stored Kind,
\* and an invocation that returns an error is enqueued again
Enqueue(ids) == pending' = IF queued THEN pending \cup ids ELSE pending
Requeued(nxt, id) == IF nxt = "Requeue" THEN {id} ELSE {}
Changed(r, id) == IF r = "OK" THEN {id} ELSE {}

\* ------------------------------------------------ failures of the calls
\* the failures a call may end with while the services are not healthy
Faults(S) == IF healthy THEN {} ELSE S
ConnectFailed == {FALSE} \cup Faults({TRUE})

\* ------------------------------------------------ the store's client
\* r.client.Get
ClientGet(id) ==
    {IF store[id].present THEN "OK" ELSE "NotFound"} \cup Faults({"Error"})

\* r.client.Update: optimistic, the object must be the stored version
ClientUpdate(w, id) ==
    {IF store[id].present /\ ~stale[w] THEN "OK" ELSE "Conflict"}
        \cup Faults({"Error"})

\* ------------------------------------------------ the registry's client
TopoGet(key) ==
    {IF key \in topo THEN "OK" ELSE "NotFound"} \cup Faults(Failures)
TopoCreate(key) ==
    {IF key \in topo THEN "AlreadyExists" ELSE "OK"} \cup Faults(Failures)
TopoDelete(key) ==
    {IF key \in topo THEN "OK" ELSE "NotFound"} \cup Faults(Failures)

\* ------------------------------------------------------------ Reconcile
\* Reconcile without the IsNotFound exemption
ReconcileNextRequeueNotFound(r, k) ==
    IF r # "OK" THEN "Requeue"
    ELSE IF Branch(k) = "reconcileCreate" THEN reconcileCreateEntry(k)
    ELSE reconcileDeleteEntry(k)

\* Reconcile returning nil for every failed fetch
ReconcileNextSwallowingError(r, k) ==
    IF r # "OK" THEN "Done"
    ELSE IF Branch(k) = "reconcileCreate" THEN reconcileCreateEntry(k)
    ELSE reconcileDeleteEntry(k)

\* Reconcile: what follows the fetch
ReconcileNext(r, k) ==
    IF r = "NotFound" THEN "Done"
    ELSE IF r # "OK" THEN "Requeue"
    ELSE IF Branch(k) = "reconcileCreate" THEN reconcileCreateEntry(k)
    ELSE reconcileDeleteEntry(k)

\* what w's previous invocation left undone for id: "create" if the process
\* stopped with the finalizer stored and no Create made, "unfinalize" if it
\* stopped after the Delete and before the Update, "persist" if the Update
\* that follows the Delete failed
Redo(w, id) ==
    LET c == call[w] IN
    IF req[w] # id \/ res[w] = "none" THEN "none"
    ELSE IF /\ res[w] = "Crashed" /\ c.create = 0
            /\ \/ c.obs = "ACTIVE_FINALIZED"
               \/ c.obs = "ACTIVE_NO_FINALIZER" /\ c.upd = 1 /\ c.err = "none"
         THEN "create"
    ELSE IF c.del = 1 /\ c.last \in {"OK", "NotFound"} /\ res[w] = "Crashed"
         THEN "unfinalize"
    ELSE IF c.del = 1 /\ c.last \in {"OK", "NotFound"} /\ c.err = "update"
         THEN "persist"
    ELSE "none"

\* the driving loop hands a request for id to worker w, which fetches the Kind
Reconcile(w, id) ==
    /\ pc[w] = "idle"
    /\ \A v \in Workers : pc[v] # "idle" => req[v] # id
    /\ queued => id \in pending
    /\ \E r \in ClientGet(id) :
         LET k == store[id] IN
         /\ req' = [req EXCEPT ![w] = id]
         /\ call' = [call EXCEPT ![w] =
                [NoCall EXCEPT !.obs = IF r = "OK" THEN Observed(k) ELSE r,
                               !.err = IF r = "Error" THEN "fetch" ELSE "none",
                               !.redo = Redo(w, id),
                               !.attrs = IF r = "OK" THEN k.attrs ELSE "none"]]
         /\ cancelled' = [cancelled EXCEPT ![w] = FALSE]
         /\ pending' = IF queued
                        THEN (pending \ {id})
                                 \cup Requeued(ReconcileNext(r, k), id)
                        ELSE pending
         /\ Goto(w, ReconcileNext(r, k), k)
         /\ UNCHANGED <<store, topo, attributes, creates, healthy, queued>>

\* reconcileCreate: k8s.AddFinalizer and r.client.Update
AddFinalizerUpdate(w) ==
    /\ pc[w] = "addFinalizer"
    /\ LET id == req[w]
           obj == AddFinalizer(kind[w], topoFinalizer)
       IN \E r \in ClientUpdate(w, id) :
            /\ store' = IF r = "OK" THEN [store EXCEPT ![id] = obj] ELSE store
            /\ call' = [call EXCEPT ![w].upd = @ + 1,
                                    ![w].err = Err(call[w], "update", r # "OK")]
            /\ Enqueue(Changed(r, id)
                           \cup Requeued(AfterAddFinalizer(r # "OK"), id))
            /\ Goto(w, AfterAddFinalizer(r # "OK"), obj)
            /\ UNCHANGED <<topo, attributes, req, creates, cancelled, healthy, queued>>

\* reconcileCreate: grpc.ConnectService
ConnectCreate(w) ==
    /\ pc[w] = "connectCreate"
    /\ \E failed \in ConnectFailed :
         /\ call' = [call EXCEPT ![w].err = Err(call[w], "connect", failed)]
         /\ Enqueue(Requeued(AfterConnectCreate(failed), req[w]))
         /\ Goto(w, AfterConnectCreate(failed), kind[w])
         /\ UNCHANGED <<store, topo, attributes, req, creates, cancelled,
                        healthy, queued>>

\* reconcileCreate: r.kindExists
CallKindExists(w) ==
    /\ pc[w] = "kindExists"
    /\ \E resp \in TopoGet(EntryKey(req[w])) :
         LET r == kindExists(resp) IN
         /\ call' = [call EXCEPT ![w].get = @ + 1,
                                 ![w].got = resp,
                                 ![w].err = Err(call[w], "get", r.err)]
         /\ Enqueue(Requeued(AfterKindExists(r), req[w]))
         /\ Goto(w, AfterKindExists(r), kind[w])
         /\ UNCHANGED <<store, topo, attributes, req, creates, cancelled,
                        healthy, queued>>

\* reconcileCreate: r.createKind, the object carrying kind.Spec.Attributes
CallCreateKind(w) ==
    /\ pc[w] = "createKind"
    /\ LET key == EntryKey(req[w]) IN
       \E resp \in TopoCreate(key), applied \in BOOLEAN :
         LET failed == createKind(resp) IN
         /\ resp \notin Failures => applied = (resp = "OK")
         /\ applied => key \notin topo
         /\ topo' = IF applied THEN topo \cup {key} ELSE topo
         /\ attributes' = IF applied
                          THEN attributes \cup {<<key, kind[w].attrs>>}
                          ELSE attributes
         /\ call' = [call EXCEPT ![w].create = @ + 1,
                                 ![w].last = resp,
                                 ![w].err = Err(call[w], "create", failed)]
         /\ creates' = [creates EXCEPT ![req[w]] =
                            IF ~failed /\ @ < 2 THEN @ + 1 ELSE @]
         /\ Enqueue(Requeued(AfterCreateKind(failed), req[w]))
         /\ Goto(w, AfterCreateKind(failed), kind[w])
         /\ UNCHANGED <<store, req, cancelled, healthy, queued>>

\* reconcileDelete: grpc.ConnectService
ConnectDelete(w) ==
    /\ pc[w] = "connectDelete"
    /\ \E failed \in ConnectFailed :
         /\ call' = [call EXCEPT ![w].err = Err(call[w], "connect", failed)]
         /\ Enqueue(Requeued(AfterConnectDelete(failed), req[w]))
         /\ Goto(w, AfterConnectDelete(failed), kind[w])
         /\ UNCHANGED <<store, topo, attributes, req, creates, cancelled,
                        healthy, queued>>

\* reconcileDelete: r.deleteKind
CallDeleteKind(w) ==
    /\ pc[w] = "deleteKind"
    /\ LET key == EntryKey(req[w]) IN
       \E resp \in TopoDelete(key), applied \in BOOLEAN :
         LET failed == deleteKind(resp) IN
         /\ resp \notin Failures => applied = (resp = "OK")
         /\ topo' = IF applied THEN topo \ {key} ELSE topo
         /\ attributes' = IF applied
                          THEN {e \in attributes : e[1] # key}
                          ELSE attributes
         /\ call' = [call EXCEPT ![w].del = @ + 1,
                                 ![w].last = resp,
                                 ![w].err = Err(call[w], "delete", failed)]
         /\ Enqueue(Requeued(AfterDeleteKind(failed), req[w]))
         /\ Goto(w, AfterDeleteKind(failed), kind[w])
         /\ UNCHANGED <<store, req, creates, cancelled, healthy, queued>>

\* reconcileDelete: k8s.RemoveFinalizer and r.client.Update
RemoveFinalizerUpdate(w) ==
    /\ pc[w] = "removeFinalizer"
    /\ LET id == req[w]
           obj == RemoveFinalizer(kind[w], topoFinalizer)
       IN \E r \in ClientUpdate(w, id) :
            /\ store' = IF r = "OK" THEN [store EXCEPT ![id] = obj] ELSE store
            /\ call' = [call EXCEPT ![w].upd = @ + 1,
                                    ![w].err = Err(call[w], "update", r # "OK")]
            /\ Enqueue(Changed(r, id)
                           \cup Requeued(AfterRemoveFinalizer(r # "OK"), id))
            /\ Goto(w, AfterRemoveFinalizer(r # "OK"), obj)
            /\ UNCHANGED <<topo, attributes, req, creates, cancelled, healthy, queued>>

\* ------------------------------------------------------ the environment
\* a user declares the Kind id; another controller may hold its finalizer
UserCreate(id) ==
    /\ ~store[id].present
    /\ Cardinality({i \in Ids : store[i].present}) < MaxKinds
    /\ \E fs \in {{}, {otherFinalizer}} :
         store' = [store EXCEPT ![id] = [present |-> TRUE, deleting |-> FALSE,
                                         finalizers |-> fs, attrs |-> "v1"]]
    /\ creates' = [creates EXCEPT ![id] = 0]
    /\ Outdate(id)
    /\ Enqueue({id})
    /\ UNCHANGED <<topo, attributes, pc, req, kind, call, res, cancelled,
                   healthy, queued>>

\* a user asks for the deletion of the Kind id: the deletion timestamp is set
UserDelete(id) ==
    /\ store[id].present /\ ~store[id].deleting
    /\ store' = [store EXCEPT ![id].deleting = TRUE]
    /\ Outdate(id)
    /\ Enqueue({id})
    /\ UNCHANGED <<topo, attributes, pc, req, kind, call, res, creates,
                   cancelled, healthy, queued>>

\* a user replaces the attributes of the Kind id
UserEdit(id) ==
    /\ store[id].present /\ ~store[id].deleting
    /\ \E a \in Attrs \ {store[id].attrs} :
         store' = [store EXCEPT ![id].attrs = a]
    /\ Outdate(id)
    /\ Enqueue({id})
    /\ UNCHANGED <<topo, attributes, pc, req, kind, call, res, creates,
                   cancelled, healthy, queued>>

\* the other controller finishes its cleanup and removes its finalizer
OtherFinalize(id) ==
    /\ store[id].present /\ store[id].deleting
    /\ otherFinalizer \in store[id].finalizers
    /\ store' = [store EXCEPT ![id].finalizers = @ \ {otherFinalizer}]
    /\ Outdate(id)
    /\ Enqueue({id})
    /\ UNCHANGED <<topo, attributes, pc, req, kind, call, res, creates,
                   cancelled, healthy, queued>>

\* the store erases a Kind that is being deleted and has no finalizer left
OwnerGC(id) ==
    /\ store[id].present /\ store[id].deleting
    /\ store[id].finalizers = {}
    /\ store' = [store EXCEPT ![id] = NoKind]
    /\ Outdate(id)
    /\ Enqueue({id})
    /\ UNCHANGED <<topo, attributes, pc, req, kind, call, res, creates,
                   cancelled, healthy, queued>>

\* an unrelated client of the registry creates or deletes an entry
ExtCreate(id) ==
    /\ EntryKey(id) \notin topo
    /\ topo' = topo \cup {EntryKey(id)}
    /\ attributes' = attributes \cup {<<EntryKey(id), "v1">>}
    /\ UNCHANGED <<store, pc, req, kind, stale, call, res, creates,
                   cancelled, healthy, queued, pending>>

ExtDelete(id) ==
    /\ EntryKey(id) \in topo
    /\ topo' = topo \ {EntryKey(id)}
    /\ attributes' = {e \in attributes : e[1] # EntryKey(id)}
    /\ UNCHANGED <<store, pc, req, kind, stale, call, res, creates,
                   cancelled, healthy, queued, pending>>

\* the caller of w's invocation gives up (its context is cancelled or its
\* deadline passes).  Reconcile receives no context and makes every call
\* with context.TODO(), which is never cancelled: no step of w reads this.
Cancel(w) ==
    /\ pc[w] # "idle" /\ ~cancelled[w]
    /\ cancelled' = [cancelled EXCEPT ![w] = TRUE]
    /\ UNCHANGED <<store, topo, attributes, pc, req, kind, stale, call, res,
                   creates, healthy, queued, pending>>

\* the process stops in the middle of w's invocation and is started again:
\* what the invocation held in memory is lost, the store and the registry
\* keep what was written, and the restarted controller lists every Kind
Crash(w) ==
    /\ pc[w] # "idle"
    /\ pc' = [pc EXCEPT ![w] = "idle"]
    /\ res' = [res EXCEPT ![w] = "Crashed"]
    /\ kind' = [kind EXCEPT ![w] = NoKind]
    /\ stale' = [stale EXCEPT ![w] = FALSE]
    /\ Enqueue({id \in Ids : store[id].present})
    /\ UNCHANGED <<store, topo, attributes, req, call, creates, cancelled,
                   healthy, queued>>

\* the store and the registry stop failing
Heal ==
    /\ ~healthy
    /\ healthy' = TRUE
    /\ UNCHANGED <<store, topo, attributes, pc, req, kind, stale, call, res,
                   creates, cancelled, queued, pending>>

\* the calls of a started invocation
Calls(w) ==
    \/ AddFinalizerUpdate(w)
    \/ ConnectCreate(w)
    \/ CallKindExists(w)
    \/ CallCreateKind(w)
    \/ ConnectDelete(w)
    \/ CallDeleteKind(w)
    \/ RemoveFinalizerUpdate(w)

Step(w) ==
    \/ \E id \in Ids : Reconcile(w, id)
    \/ AddFinalizerUpdate(w)
    \/ ConnectCreate(w)
    \/ CallKindExists(w)
    \/ CallCreateKind(w)
    \/ ConnectDelete(w)
    \/ CallDeleteKind(w)
    \/ RemoveFinalizerUpdate(w)

Env(id) ==
    \/ UserCreate(id)
    \/ UserDelete(id)
    \/ OtherFinalize(id)
    \/ OwnerGC(id)

Next == (\E w \in Workers : Step(w)) \/ (\E id \in Ids : Env(id))

\* the registry is written by the reconciler alone
Spec == Init /\ [][Next]_vars

NextExt == Next \/ (\E id \in ExtIds : ExtCreate(id) \/ ExtDelete(id))

\* unrelated clients write the registry too
SpecExt == Init /\ [][NextExt]_vars

NextCancel == Next \/ (\E w \in Workers : Cancel(w))

\* callers may give up on an invocation in progress
SpecCancel == Init /\ [][NextCancel]_vars

NextCrash == Next \/ (\E w \in Workers : Crash(w))

\* the process may stop between two calls of an invocation
SpecCrash == Init /\ [][NextCrash]_vars

NextEdit == Next \/ (\E id \in EditIds : UserEdit(id))

\* users edit the attributes of declared Kinds
SpecEdit == Init /\ [][NextEdit]_vars

NextLive ==
    \/ \E w \in Workers : Step(w)
    \/ \E id \in LiveIds : Env(id)
    \/ Heal

\* every started call returns, the work queue hands out every identity it
\* holds, and the store and the registry stop failing at some time
Fairness ==
    /\ \A w \in Workers : WF_vars(Calls(w))
    /\ \A id \in Ids : SF_vars(\E w \in Workers : Reconcile(w, id))
    /\ WF_vars(Heal)

SpecLive == InitLive /\ [][NextLive]_vars /\ Fairness

\* ------------------------------------------------------------ properties
Returned(w) == pc[w] = "idle" /\ res[w] # "none"
HoldsToken(id) == store[id].present /\ HasFinalizer(store[id], topoFinalizer)
NoCalls(c) == c.upd = 0 /\ c.get = 0 /\ c.create = 0 /\ c.del = 0
Active == {"ACTIVE_NO_FINALIZER", "ACTIVE_FINALIZED"}

\* C1: a Kind that has been erased from the store, or that is being deleted
\* and no longer holds the topo finalizer, has no entry in the registry
\* (the registry being written by the reconciler alone).
NoDanglingEntry ==
    \A id \in Ids :
        (~store[id].present \/ (store[id].deleting /\ ~HoldsToken(id)))
            => EntryKey(id) \notin topo

\* a Kind whose entry was deleted by its last reconcile has been erased
ErasedAfterCleanup ==
    \E w \in Workers :
        /\ Returned(w) /\ res[w] = "Done"
        /\ call[w].obs = "DELETING_FINALIZED" /\ call[w].last = "OK"
        /\ ~store[req[w]].present

\* C2 as stated: once the deletion timestamp of a Kind is set, no Create
\* request is issued for it, even by a call that fetched the Kind before.
NoCreateAfterDeletionIntent ==
    [][\A w \in Workers :
          (pc[w] = "createKind" /\ call'[w].create > call[w].create)
              => ~store[req[w]].deleting]_vars

\* C2 amended: a call reaches the calls of reconcileCreate (Update, Get,
\* Create) only if the Kind it fetched had no deletion timestamp.
CreateOnlyFromActiveSnapshot ==
    \A w \in Workers :
        (\/ pc[w] \in {"addFinalizer", "connectCreate", "kindExists", "createKind"}
         \/ call[w].get > 0
         \/ call[w].create > 0)
            => call[w].obs \in Active

\* a Create was accepted for a Kind whose deletion timestamp is set
CreateRacedWithDeletion ==
    \E w \in Workers :
        /\ call[w].create = 1 /\ call[w].last = "OK"
        /\ call[w].obs \in Active
        /\ store[req[w]].present /\ store[req[w]].deleting

\* C3 as stated: a call that observes an active Kind without the finalizer
\* adds it and returns; it makes no registry call.
SingleStepPerCall ==
    \A w \in Workers :
        call[w].obs = "ACTIVE_NO_FINALIZER"
            => /\ pc[w] \in {"idle", "addFinalizer"}
               /\ call[w].get = 0 /\ call[w].create = 0 /\ call[w].del = 0

\* C3 amended: a call that observes an active Kind without the finalizer
\* makes at most one Update and at most one Create; it goes on to the
\* registry only after the Update succeeded (the stored Kind then holds the
\* finalizer), and returns Requeue with no registry call when it failed.
AddFinalizerThenCreate ==
    \A w \in Workers :
        call[w].obs = "ACTIVE_NO_FINALIZER"
            => /\ call[w].upd <= 1 /\ call[w].create <= 1 /\ call[w].del = 0
               /\ (\/ pc[w] \in {"connectCreate", "kindExists", "createKind"}
                   \/ call[w].get > 0
                   \/ call[w].create > 0)
                      => /\ call[w].upd = 1
                         /\ call[w].err # "update"
                         /\ HoldsToken(req[w])
               /\ call[w].err = "update"
                      => /\ Returned(w) /\ res[w] = "Requeue"
                         /\ call[w].get = 0 /\ call[w].create = 0

\* one call added the finalizer and created the entry
AddedAndCreatedInOneCall ==
    \E w \in Workers :
        /\ Returned(w) /\ res[w] = "Done"
        /\ call[w].obs = "ACTIVE_NO_FINALIZER"
        /\ call[w].upd = 1 /\ call[w].get = 1 /\ call[w].create = 1

\* C4: an invocation makes at most one Update, at most one registry Get
\* and at most one of Create and Delete; after a failed call it returns.
NoInternalRetry ==
    \A w \in Workers :
        /\ call[w].upd <= 1
        /\ call[w].get <= 1
        /\ call[w].create + call[w].del <= 1
        /\ call[w].err # "none" => Returned(w) /\ res[w] = "Requeue"

\* a call returned after its only Create failed
ReturnedAfterFailedCreate ==
    \E w \in Workers :
        /\ Returned(w) /\ res[w] = "Requeue"
        /\ call[w].err = "create" /\ call[w].create = 1

\* C5: for one incarnation of a Kind the registry accepts at most one Create;
\* Create is issued only by a call whose Get answered NotFound; a call on an
\* active, finalized Kind that meets no error returns Done and the entry is
\* there afterwards.
IdempotentCreation ==
    /\ \A id \in Ids : creates[id] <= 1
    /\ \A w \in Workers :
        /\ call[w].create > 0 => call[w].got = "NotFound"
        /\ (Returned(w) /\ call[w].obs = "ACTIVE_FINALIZED" /\ call[w].err = "none")
              => res[w] = "Done" /\ EntryKey(req[w]) \in topo

\* a later call found the entry created before and did nothing
SecondCallFoundEntry ==
    \E w \in Workers :
        /\ Returned(w) /\ res[w] = "Done"
        /\ call[w].obs = "ACTIVE_FINALIZED"
        /\ call[w].got = "OK" /\ call[w].create = 0
        /\ creates[req[w]] = 1

\* C6: a call on a Kind that is being deleted and holds the finalizer
\* returns Done unless a call fails; when it returns Done it made one Delete
\* and one Update, and the entry and the finalizer are gone; the calls that
\* find the finalizer or the Kind gone make no call at all.
IdempotentDeletion ==
    \A w \in Workers :
        /\ (Returned(w) /\ call[w].obs = "DELETING_FINALIZED")
              => /\ call[w].err = "none" => res[w] = "Done"
                 /\ res[w] = "Done"
                       => /\ call[w].del = 1 /\ call[w].upd = 1
                          /\ EntryKey(req[w]) \notin topo
                          /\ ~HoldsToken(req[w])
        /\ call[w].obs \in {"DELETING_NO_FINALIZER", "NotFound"}
              => Returned(w) /\ res[w] = "Done" /\ NoCalls(call[w])

\* the finalizer was removed although the registry held no entry
FinalizedWithoutEntry ==
    \E w \in Workers :
        /\ Returned(w) /\ res[w] = "Done"
        /\ call[w].obs = "DELETING_FINALIZED"
        /\ call[w].last = "NotFound"
        /\ ~HoldsToken(req[w])

\* C7: a call whose fetch answers not-found returns Done, one whose fetch
\* fails otherwise returns Requeue; neither makes a registry call or Update.
NoOpOnMissing ==
    \A w \in Workers :
        /\ call[w].obs = "NotFound"
              => Returned(w) /\ res[w] = "Done" /\ NoCalls(call[w])
        /\ call[w].obs = "Error"
              => Returned(w) /\ res[w] = "Requeue" /\ NoCalls(call[w])

\* a request for a Kind that the store does not hold returned Done
ReconciledMissingKind ==
    \E w \in Workers :
        /\ Returned(w) /\ res[w] = "Done"
        /\ call[w].obs = "NotFound"
        /\ ~store[req[w]].present

\* C8: when the registry's Get, Create or Delete fails with anything but
\* the tolerated status, the call returns Requeue; no Create follows a failed
\* Get; no Update follows a failed Delete, whose Kind keeps the finalizer.
TransientErrorRequeue ==
    \A w \in Workers :
        /\ call[w].got \in Failures
              => Returned(w) /\ res[w] = "Requeue" /\ call[w].create = 0
        /\ call[w].last \in Failures
              => /\ Returned(w) /\ res[w] = "Requeue"
                 /\ call[w].del = 1 => call[w].upd = 0 /\ HoldsToken(req[w])

\* a Delete failed and the call returned Requeue
ReturnedAfterFailedDelete ==
    \E w \in Workers :
        /\ Returned(w) /\ res[w] = "Requeue"
        /\ call[w].del = 1 /\ call[w].last \in Failures

\* C9: with unrelated clients writing the registry, a Create answered
\* AlreadyExists ends the call with Done; a Delete answered NotFound is no
\* error: the call goes on to remove the finalizer and, the Update
\* succeeding, returns Done.
ToleratesConcurrentMutation ==
    \A w \in Workers :
        /\ call[w].last = "AlreadyExists" => Returned(w) /\ res[w] = "Done"
        /\ (call[w].del = 1 /\ call[w].last = "NotFound")
              => /\ call[w].err # "delete"
                 /\ Returned(w)
                       => /\ call[w].upd = 1
                          /\ call[w].err = "none"
                                => res[w] = "Done" /\ ~HoldsToken(req[w])

\* the entry appeared between the Get and the Create of one call
CreateLostTheRace ==
    \E w \in Workers :
        /\ Returned(w) /\ res[w] = "Done"
        /\ call[w].got = "NotFound" /\ call[w].last = "AlreadyExists"

TerminalStateInert ==
    \A w \in Workers :
        call[w].obs = "DELETING_NO_FINALIZER"
            => /\ Returned(w) /\ res[w] = "Done"
               /\ NoCalls(call[w])
               /\ call[w].err = "none"
               /\ ~HoldsToken(req[w])

\* such a call returned while the other finalizer is still on the Kind
InertWithOtherFinalizer ==
    \E w \in Workers :
        /\ Returned(w) /\ res[w] = "Done"
        /\ call[w].obs = "DELETING_NO_FINALIZER"
        /\ store[req[w]].present /\ store[req[w]].deleting
        /\ otherFinalizer \in store[req[w]].finalizers

\* the states between the registry Delete of a call for id and the removal
\* of the finalizer of id
InDeleteWindow(id) ==
    \E w \in Workers :
        req[w] = id /\ call[w].del > 0 /\ HoldsToken(id)

\* C12 as stated: an entry in the registry implies a stored Kind without
\* deletion timestamp, except between the Delete of the entry and the
\* removal of the finalizer.
EntryImpliesLiveKind ==
    \A id \in Ids :
        EntryKey(id) \in topo
            => \/ store[id].present /\ ~store[id].deleting
               \/ InDeleteWindow(id)

\* C12 amended: an entry in the registry implies a stored Kind that holds the
\* topo finalizer (it may carry a deletion timestamp: from the deletion
\* request until the reconciler's Delete).
EntryImpliesFinalizedKind ==
    \A id \in Ids : EntryKey(id) \in topo => HoldsToken(id)

\* deletion was requested and the entry is not yet deleted
EntryOfKindPendingDeletion ==
    \E id \in Ids :
        /\ EntryKey(id) \in topo
        /\ store[id].present /\ store[id].deleting
        /\ ~InDeleteWindow(id)

\* C15: in a call on a Kind being deleted that holds the finalizer, the
\* Update that removes the finalizer is reached only after one Delete that
\* answered OK or NotFound; a failed connect or a failed Delete ends the call
\* without Update.
DeleteBeforeUnfinalize ==
    \A w \in Workers :
        call[w].obs = "DELETING_FINALIZED"
            => /\ (pc[w] = "removeFinalizer" \/ call[w].upd > 0)
                    => call[w].del = 1 /\ call[w].last \in {"OK", "NotFound"}
               /\ (call[w].err = "connect" \/ call[w].last \in Failures)
                    => Returned(w) /\ res[w] = "Requeue" /\ call[w].upd = 0

\* a call deleted the entry and then removed the finalizer
DeletedThenUnfinalized ==
    \E w \in Workers :
        /\ Returned(w) /\ res[w] = "Done"
        /\ call[w].obs = "DELETING_FINALIZED"
        /\ call[w].del = 1 /\ call[w].last = "OK" /\ call[w].upd = 1
        /\ ~HoldsToken(req[w])

\* C19: a call is at its connect, Get or Create only while the stored Kind
\* holds the topo finalizer, and every Create request was made in such a call.
FinalizerPrecedesCreate ==
    \A w \in Workers :
        (\/ pc[w] \in {"connectCreate", "kindExists", "createKind"}
         \/ call[w].create > 0)
            => HoldsToken(req[w])

\* a call is about to create the entry right after persisting the finalizer
CreateAfterPersistedFinalizer ==
    \E w \in Workers :
        /\ pc[w] = "createKind"
        /\ call[w].obs = "ACTIVE_NO_FINALIZER" /\ call[w].upd = 1
        /\ HoldsToken(req[w])

EventualConvergence ==
    \A id \in Ids :
        /\ (store[id].present /\ ~store[id].deleting)
               ~> (\/ store[id].deleting
                   \/ HoldsToken(id) /\ EntryKey(id) \in topo)
        /\ (store[id].present /\ store[id].deleting)
               ~> (~HoldsToken(id) /\ EntryKey(id) \notin topo)

\* a deletion that failed at first has been completed after the services
\* stopped failing
ConvergedAfterFailures ==
    \E w \in Workers :
        /\ healthy /\ Returned(w) /\ res[w] = "Done"
        /\ call[w].obs = "DELETING_FINALIZED" /\ call[w].redo = "persist"
        /\ ~HoldsToken(req[w]) /\ EntryKey(req[w]) \notin topo

\* no call of the invocation was answered with a failure
CleanCall(c) ==
    /\ c.err \notin {"fetch", "connect", "update"}
    /\ c.got \notin Failures
    /\ c.last \notin Failures

\* C16: an invocation that follows, for the same Kind, one that the process
\* stopped with the finalizer stored and no Create made, or after the Delete
\* and before the finalizer's removal was stored, finds the finalizer on its
\* fresh copy, and without failing call returns Done with finalizer and
\* entry present (Kind not being deleted) or both absent (being deleted).
CrashSafety ==
    \A w \in Workers :
        /\ (call[w].redo = "create" /\ call[w].obs \in Active)
               => call[w].obs = "ACTIVE_FINALIZED"
        /\ (call[w].redo \in {"unfinalize", "persist"}
                /\ call[w].obs # "Error")
               => call[w].obs = "DELETING_FINALIZED"
        /\ (Returned(w) /\ res[w] # "Crashed" /\ CleanCall(call[w]))
               => /\ (call[w].redo = "create" /\ call[w].obs \in Active)
                       => /\ res[w] = "Done"
                          /\ HoldsToken(req[w])
                          /\ EntryKey(req[w]) \in topo
                  /\ (call[w].redo # "none"
                          /\ call[w].obs = "DELETING_FINALIZED")
                       => /\ res[w] = "Done"
                          /\ ~HoldsToken(req[w])
                          /\ EntryKey(req[w]) \notin topo

\* the invocation after a stop between Delete and Update has finished the
\* deletion
UnfinalizedAfterCrash ==
    \E w \in Workers :
        /\ Returned(w) /\ res[w] = "Done"
        /\ call[w].redo = "unfinalize" /\ call[w].obs = "DELETING_FINALIZED"
        /\ call[w].last = "NotFound" /\ call[w].upd = 1
        /\ ~HoldsToken(req[w])

\* C17: a failed Update of the added finalizer ends the call with Requeue,
\* no registry call made and the finalizer not stored; a failed Update of
\* the removed finalizer ends the call with Requeue and the finalizer still
\* stored, and the next call for the Kind, none of its calls failing, gets
\* NotFound from its Delete and removes the finalizer.
PersistFailureSurfaced ==
    \A w \in Workers :
        /\ (call[w].obs = "ACTIVE_NO_FINALIZER" /\ call[w].err = "update")
               => /\ Returned(w) /\ res[w] = "Requeue"
                  /\ call[w].upd = 1
                  /\ call[w].get = 0 /\ call[w].create = 0 /\ call[w].del = 0
                  /\ ~HoldsToken(req[w])
        /\ (call[w].obs = "DELETING_FINALIZED" /\ call[w].err = "update")
               => /\ Returned(w) /\ res[w] = "Requeue"
                  /\ call[w].upd = 1 /\ call[w].del = 1
                  /\ HoldsToken(req[w])
        /\ (/\ call[w].redo = "persist"
            /\ call[w].obs = "DELETING_FINALIZED"
            /\ Returned(w) /\ CleanCall(call[w]))
               => /\ res[w] = "Done"
                  /\ call[w].last = "NotFound"
                  /\ ~HoldsToken(req[w])

\* the Update removing the finalizer failed after the Delete succeeded
RemovalNotPersisted ==
    \E w \in Workers :
        /\ Returned(w) /\ res[w] = "Requeue"
        /\ call[w].obs = "DELETING_FINALIZED"
        /\ call[w].last = "OK" /\ call[w].err = "update"
        /\ HoldsToken(req[w]) /\ EntryKey(req[w]) \notin topo

\* C18: the Get of a call that fetched a Kind without deletion timestamp and
\* with the finalizer, when it finds the entry, ends the call with Done; the
\* store, the entries and their attributes are as before the call, which
\* made no Update, Create or Delete.
WriteOnceMirror ==
    [][\A w \in Workers :
          (/\ pc[w] = "kindExists"
           /\ call[w].obs = "ACTIVE_FINALIZED"
           /\ call'[w].got = "OK")
              => /\ pc'[w] = "idle" /\ res'[w] = "Done"
                 /\ call'[w].upd = 0 /\ call'[w].create = 0
                 /\ call'[w].del = 0
                 /\ store' = store /\ topo' = topo
                 /\ attributes' = attributes]_vars

\* such a call returned Done for a Kind whose attributes are not the entry's
FoundEntryWithOtherAttributes ==
    \E w \in Workers :
        /\ Returned(w) /\ res[w] = "Done"
        /\ call[w].obs = "ACTIVE_FINALIZED" /\ call[w].got = "OK"
        /\ EntryKey(req[w]) \in topo
        /\ <<EntryKey(req[w]), call[w].attrs>> \notin attributes
====
